---- MODULE Spec2Model ----
(***************************************************************************)
(* jaseg/tagomatic: the catalog (pics, tags, pic_tags) maintained by the   *)
(* reindex pass and the tagging tool of tagomatic.py, and the static site  *)
(* written by generator.py.                                                *)
(*                                                                         *)
(* Text (file names, directory names, tag values) is a sequence of         *)
(* one-character strings, so that the filename regular expression, int(),  *)
(* str.lower() and SQL's ORDER BY on text are computed, not assumed.       *)
(***************************************************************************)
EXTENDS Integers, Sequences, FiniteSets, TLC

(***************************************************************************)
(* Bounds of the model.                                                    *)
(***************************************************************************)
\* what the user does in one behaviour: files added to or removed from the
\* image tree, and clicks and edits in the tagging tool
MaxUserOps == 4
\* reindex passes (tagomatic.py -r) in one behaviour
MaxPasses == 2

(***************************************************************************)
(* Text.                                                                   *)
(***************************************************************************)
Digits == {"0", "1", "2", "3", "4", "5", "6", "7", "8", "9"}

\* int() of one decimal digit
DigitVal(c) ==
    CASE c = "0" -> 0 [] c = "1" -> 1 [] c = "2" -> 2 [] c = "3" -> 3
      [] c = "4" -> 4 [] c = "5" -> 5 [] c = "6" -> 6 [] c = "7" -> 7
      [] c = "8" -> 8 [] c = "9" -> 9

\* int(s) of a string of decimal digits (leading zeros allowed)
RECURSIVE IntOf(_)
IntOf(s) ==
    IF s = <<>> THEN 0
    ELSE 10 * IntOf(SubSeq(s, 1, Len(s) - 1)) + DigitVal(s[Len(s)])

\* the byte of a character (the order of SQLite's BINARY collation)
Code(c) ==
    CASE c = "-" -> 45 [] c = "." -> 46
      [] c \in Digits -> 48 + DigitVal(c)
      [] c = "A" -> 65 [] c = "B" -> 66
      [] c = "a" -> 97 [] c = "b" -> 98 [] c = "c" -> 99 [] c = "d" -> 100
      [] c = "e" -> 101 [] c = "g" -> 103 [] c = "j" -> 106 [] c = "n" -> 110
      [] c = "o" -> 111 [] c = "p" -> 112 [] c = "s" -> 115 [] c = "t" -> 116
      [] OTHER -> 0

\* str.lower() of one character
LowerChar(c) ==
    CASE c = "A" -> "a" [] c = "B" -> "b" [] OTHER -> c

\* str.lower()
Lower(s) == [i \in 1..Len(s) |-> LowerChar(s[i])]

\* s < t in bytewise (memcmp) order
RECURSIVE TextLess(_, _)
TextLess(s, t) ==
    IF t = <<>> THEN FALSE
    ELSE IF s = <<>> THEN TRUE
    ELSE IF Code(s[1]) # Code(t[1]) THEN Code(s[1]) < Code(t[1])
    ELSE TextLess(Tail(s), Tail(t))

TextLeq(s, t) == s = t \/ TextLess(s, t)

\* SQL NULL / Python None in a text column (no text is a one-element
\* sequence holding a four-character string)
NULL == <<"NULL">>

\* SQL NULL in the integer column pgnum (page numbers start at 1)
PgNull == 0

(***************************************************************************)
(* The filename pattern of the reindex pass.                               *)
(***************************************************************************)
\* length of the longest run of digits of s starting at position i
RECURSIVE DigitRun(_, _)
DigitRun(s, i) ==
    IF i <= Len(s) /\ s[i] \in Digits THEN 1 + DigitRun(s, i + 1) ELSE 0

\* ([0-9]+)-([0-9]+)\.jpg matches s from position k+1 on. Both groups are
\* greedy, and what follows each is not a digit, so only the longest run of
\* digits can match.
TailMatches(s, k, d1, d2) ==
    /\ d1 >= 1
    /\ k + d1 + 1 <= Len(s) /\ s[k + d1 + 1] = "-"
    /\ d2 >= 1
    /\ k + d1 + d2 + 5 <= Len(s)
    /\ SubSeq(s, k + d1 + d2 + 2, k + d1 + d2 + 5) = <<".", "j", "p", "g">>

SecondRun(s, k, d1) == TailMatches(s, k, d1, DigitRun(s, k + d1 + 2))

MatchesAfter(s, k) == SecondRun(s, k, DigitRun(s, k + 1))

NoMatch == [matched |-> FALSE]

\* re.match(r'(.*?)([0-9]+)-([0-9]+)\.jpg', fn): the lazy first group takes
\* the shortest prefix after which the rest matches; the match need not
\* reach the end of fn.
Groups(fn, k, d1, d2) ==
    [matched |-> TRUE,
     prefix  |-> SubSeq(fn, 1, k),
     series  |-> SubSeq(fn, k + 1, k + d1),
     imgnum  |-> SubSeq(fn, k + d1 + 2, k + d1 + d2 + 1)]

GroupsAt2(fn, k, d1) == Groups(fn, k, d1, DigitRun(fn, k + d1 + 2))

GroupsAt(fn, k) == GroupsAt2(fn, k, DigitRun(fn, k + 1))

FirstOf(fn, ks) ==
    IF ks = {} THEN NoMatch
    ELSE GroupsAt(fn, CHOOSE x \in ks : \A y \in ks : x <= y)

ReMatch(fn) == FirstOf(fn, {k \in 0..Len(fn) : MatchesAfter(fn, k)})

(***************************************************************************)
(* The image tree: the *.jpg files under img_path.                         *)
(***************************************************************************)
JPG == <<".", "j", "p", "g">>

\* a path below img_path: the directory components and the file name
Path(d, f) == [dir |-> d, fn |-> f]

\* the directories and file names of the model
DirA   == << <<"A">> >>
DirAc  == << <<"A">>, <<"c">> >>
DirB   == << <<"B">> >>
DirBcd == << <<"B">>, <<"c">>, <<"d">> >>

FnAA00101 == <<"A", "A", "0", "0", "1", "-", "0", "1">> \o JPG
FnAA00102 == <<"A", "A", "0", "0", "1", "-", "0", "2">> \o JPG
FnAA00201 == <<"A", "A", "0", "0", "2", "-", "0", "1">> \o JPG
FnAA00301 == <<"A", "A", "0", "0", "3", "-", "0", "1">> \o JPG
Fnaa00101 == <<"a", "a", "0", "0", "1", "-", "0", "1">> \o JPG
FnNotes   == <<"n", "o", "t", "e", "s">> \o JPG

\* the byte contents a file can have
Contents == {"x", "y", "z"}

\* The files a user can put into the image tree: a path and its contents.
\* Two prefixes (AA, aa) meet in book A, prefix AA spans books A and B, the
\* bytes x and z each occur under two names, one name does not match the
\* pattern and one file lies three directories deep.
Candidates ==
    { <<Path(DirA,   FnAA00101), "x">>,
      <<Path(DirAc,  FnAA00102), "y">>,
      <<Path(DirB,   FnAA00201), "x">>,
      <<Path(DirB,   FnAA00201), "z">>,
      <<Path(DirA,   Fnaa00101), "z">>,
      <<Path(DirA,   FnNotes),   "y">>,
      <<Path(DirBcd, FnAA00301), "y">> }

\* hashlib.sha3_256(f.read()).hexdigest(): equal bytes give equal digests,
\* different bytes different digests
Sha3(c) ==
    CASE c = "x" -> "sha3x" [] c = "y" -> "sha3y" [] c = "z" -> "sha3z"

Hashes == {Sha3(c) : c \in Contents}

\* the orders in which glob.glob may list the files of S
Orders(S) ==
    {o \in [1..Cardinality(S) -> S] : \A i, j \in DOMAIN o : o[i] = o[j] => i = j}

VARIABLES
    files,      \* image tree: path -> contents
    dbInit,     \* the catalog's tables exist
    tags,       \* table tags: set of [id, type, name]
    pics,       \* table pics: sequence of rows, row i has id i
    picTags,    \* table pic_tags: set of [id, pic, tag, value]
    passes,     \* reindex passes started so far
    userOps,    \* file changes and tool clicks and edits so far
    gen,        \* the run of generator.py
    lastPass    \* history of the passes: err, how the last pass ended;
                \* found, the hashes of the files of the last pass that was
                \* committed; ever, those of all committed passes

vars == <<files, dbInit, tags, pics, picTags, passes, userOps, lastPass, gen>>

(***************************************************************************)
(* tagomatic.py, __main__: the reindex pass.                               *)
(***************************************************************************)
\* the default tag definitions, in the order of the INSERT
DefaultTags ==
    { [id |-> 1, type |-> "str",  name |-> "title"],
      [id |-> 2, type |-> "str",  name |-> "comment"],
      [id |-> 3, type |-> "bool", name |-> "check"] }

\* INSERT INTO tags ... ON CONFLICT DO NOTHING: name is UNIQUE
InsertDefaultTags(t) ==
    IF t = {} THEN DefaultTags ELSE t

\* SELECT id FROM tags WHERE name="title"
TitleTagId(t) == (CHOOSE r \in t : r.name = "title").id

\* a pass without UPDATE pics SET valid=0
KeepValid(ps) == ps

\* UPDATE pics SET valid=0
Invalidate(ps) == [i \in DOMAIN ps |-> [ps[i] EXCEPT !.valid = 0]]

\* book, category of a relative directory; more than two components raise
\* UserWarning. normpath('') is '.'.
SplitDir(parts) ==
    [book     |-> parts[1],
     category |-> IF Len(parts) >= 2 THEN parts[2] ELSE NULL,
     ok       |-> Len(parts) <= 2]

DirParts(dir) == SplitDir(IF dir = <<>> THEN << <<".">> >> ELSE dir)

\* the "upsert hack": UPDATE ... WHERE sha3=?; INSERT when no row was updated
Upsert(ps, book, category, fn, rel, prefix, hash) ==
    IF \E i \in DOMAIN ps : ps[i].sha3 = hash
    THEN [i \in DOMAIN ps |->
            IF ps[i].sha3 = hash
            THEN [ps[i] EXCEPT !.book = book, !.category = category,
                               !.filename = fn, !.path = rel,
                               !.prefix = prefix, !.valid = 1]
            ELSE ps[i]]
    ELSE Append(ps, [id |-> Len(ps) + 1, filename |-> fn, category |-> category,
                     book |-> book, prefix |-> prefix, sha3 |-> hash,
                     pgnum |-> PgNull, path |-> rel, valid |-> 1])

\* the id of the pics row with this hash (sha3 is UNIQUE)
PicIdOf(ps, hash) == CHOOSE i \in DOMAIN ps : ps[i].sha3 = hash

\* a pass that never finds a title value
NoTitleTag(ps, pt, t, hash) == FALSE

\* title_tag_exists
TitleTagExists(ps, pt, t, hash) ==
    \E r \in pt : r.tag = TitleTagId(t) /\ ps[r.pic].sha3 = hash

\* the rowid SQLite gives a new row of an INTEGER PRIMARY KEY table
NewRowId(rows) ==
    IF rows = {} THEN 1
    ELSE (CHOOSE r \in rows : \A q \in rows : q.id <= r.id).id + 1

\* INSERT INTO pic_tags (pic, tag) VALUES (?, ?): value is NULL
InsertPicTag(pt, pic, tag) ==
    pt \cup {[id |-> NewRowId(pt), pic |-> pic, tag |-> tag, value |-> NULL]}

\* the INSERT of the title value without the test of title_tag_exists
InsertTitle(ps, pt, t, hash) ==
    InsertPicTag(pt, PicIdOf(ps, hash), TitleTagId(t))

\* the title value a scanned picture gets when it has none
EnsureTitle(ps, pt, t, hash) ==
    IF TitleTagExists(ps, pt, t, hash) THEN pt
    ELSE InsertPicTag(pt, PicIdOf(ps, hash), TitleTagId(t))

\* prefixes[prefix].append(entry) on a defaultdict, which keeps the order in
\* which its keys were first used
PrefixAppend(groups, prefix, entry) ==
    IF \E g \in DOMAIN groups : groups[g].prefix = prefix
    THEN [g \in DOMAIN groups |->
            IF groups[g].prefix = prefix
            THEN [groups[g] EXCEPT !.entries = Append(@, entry)]
            ELSE groups[g]]
    ELSE Append(groups, [prefix |-> prefix, entries |-> <<entry>>])

\* the upsert and the title value of one file, and its entry in prefixes
StoreRow(t, st, ps, groups, hash) ==
    [st EXCEPT !.prefixes = groups,
               !.pics = ps,
               !.picTags = EnsureTitle(ps, st.picTags, t, hash),
               !.scanned = @ \cup {hash}]

StoreFile(t, p, st, m, hash, groups, d) ==
    IF ~d.ok THEN [st EXCEPT !.err = "UserWarning: directory"]
    ELSE StoreRow(t, st,
                  Upsert(st.pics, d.book, d.category, p.fn, p.dir, m.prefix, hash),
                  groups, hash)

ScanMatched(t, p, st, m, hash) ==
    StoreFile(t, p, st, m, hash,
              PrefixAppend(st.prefixes, m.prefix,
                           [series |-> IntOf(m.series),
                            imgnum |-> IntOf(m.imgnum), hash |-> hash]),
              DirParts(p.dir))

\* a loop body that skips a file name the pattern does not match
ScanSkipUnparsed(fs, t, p, st, m) ==
    IF ~m.matched THEN st
    ELSE ScanMatched(t, p, st, m, Sha3(fs[p]))

\* if not m: raise UserWarning
ScanParsed(fs, t, p, st, m) ==
    IF ~m.matched THEN [st EXCEPT !.err = "UserWarning: can't parse"]
    ELSE ScanMatched(t, p, st, m, Sha3(fs[p]))

\* the body of "for pic in piclist" for the file at path p
ScanOne(fs, t, p, st) == ScanParsed(fs, t, p, st, ReMatch(p.fn))

\* "for pic in piclist": an exception ends the loop
RECURSIVE ScanLoop(_, _, _, _, _)
ScanLoop(fs, t, order, i, st) ==
    IF i > Len(order) \/ st.err # "ok" THEN st
    ELSE ScanLoop(fs, t, order, i + 1, ScanOne(fs, t, order[i], st))

\* the sort key of an entry
EntryLeq(a, b) ==
    a.series < b.series \/ (a.series = b.series /\ a.imgnum <= b.imgnum)

\* sorted(entries, key=lambda tup: (tup[0], tup[1])): stable
InsertAt(init, x, k) ==
    SubSeq(init, 1, k) \o <<x>> \o SubSeq(init, k + 1, Len(init))

\* x put behind the entries of the sorted init that are not greater
InsertSorted(init, x) ==
    InsertAt(init, x, Cardinality({i \in DOMAIN init : EntryLeq(init[i], x)}))

RECURSIVE SortedEntries(_)
SortedEntries(es) ==
    IF Len(es) <= 1 THEN es
    ELSE InsertSorted(SortedEntries(SubSeq(es, 1, Len(es) - 1)), es[Len(es)])

\* UPDATE pics SET pgnum = ? WHERE sha3 = ?
SetPgnum(ps, num, hash) ==
    [i \in DOMAIN ps |-> IF ps[i].sha3 = hash THEN [ps[i] EXCEPT !.pgnum = num]
                         ELSE ps[i]]

\* enumerate(sorted(entries), start=1) of one prefix, from position n on
RECURSIVE NumberGroup(_, _, _)
NumberGroup(ps, sorted, n) ==
    IF n > Len(sorted) THEN ps
    ELSE NumberGroup(SetPgnum(ps, n, sorted[n].hash), sorted, n + 1)

\* "for entries in prefixes.values()", from group g on
RECURSIVE Renumber(_, _, _)
Renumber(ps, groups, g) ==
    IF g > Len(groups) THEN ps
    ELSE Renumber(NumberGroup(ps, SortedEntries(groups[g].entries), 1),
                  groups, g + 1)

\* the pass over the files listed in this order, up to the commit
\* "Reindexing pages", reached when no file raised
PassEnd(st) ==
    IF st.err # "ok" THEN st
    ELSE [st EXCEPT !.pics = Renumber(st.pics, st.prefixes, 1)]

\* the statements of the pass inside "with db:", from UPDATE pics SET valid=0
\* on, over the files in the order glob lists them
PassResult(fs, t, ps, pt, order) ==
    PassEnd(ScanLoop(fs, t, order, 1,
                     [pics |-> Invalidate(ps), picTags |-> pt,
                      prefixes |-> <<>>, scanned |-> {}, err |-> "ok"]))

\* a pass whose statements are not in a transaction: what was written up to
\* the exception stays
EndPassNoRollback(t, res) ==
    /\ dbInit' = TRUE
    /\ passes' = passes + 1
    /\ tags' = t
    /\ pics' = res.pics
    /\ picTags' = res.picTags
    /\ lastPass' = [err |-> res.err, found |-> res.scanned,
                    ever |-> lastPass.ever \cup res.scanned]

\* the end of "with db:": the pass is committed, or rolled back when an
\* exception leaves the block. CREATE TABLE IF NOT EXISTS is not part of the
\* transaction, so the tables exist either way.
EndPass(t, res) ==
    /\ dbInit' = TRUE
    /\ passes' = passes + 1
    /\ IF res.err = "ok"
       THEN /\ tags' = t
            /\ pics' = res.pics
            /\ picTags' = res.picTags
            /\ lastPass' = [err |-> "ok", found |-> res.scanned,
                            ever |-> lastPass.ever \cup res.scanned]
       ELSE /\ lastPass' = [lastPass EXCEPT !.err = res.err]
            /\ UNCHANGED <<tags, pics, picTags>>

\* one pass with the tag definitions t
RunPass(t, order) == EndPass(t, PassResult(files, t, pics, picTags, order))

\* tagomatic.py -r
Reindex ==
    /\ gen.pc = "idle"
    /\ passes < MaxPasses
    /\ \E order \in Orders(DOMAIN files) : RunPass(InsertDefaultTags(tags), order)
    /\ UNCHANGED <<files, userOps, gen>>

(***************************************************************************)
(* tagomatic.py, class App: the tagging tool.                              *)
(***************************************************************************)
\* the text a user can type into an edit field
Texts == { <<>>, <<"a">>, <<"b">> }

\* App.__init__: the pictures the tool lists, SELECT ... WHERE valid=1
ShownPics(ps) == {i \in DOMAIN ps : ps[i].valid = 1}

\* App.refresh_pic: the rows of the tag box of picture pid. The query scans
\* pic_tags, so the rows come in the order of pic_tags.id.
TagRows(pt, pid) == {r \in pt : r.pic = pid}

\* is_bool of a row of the tag box
IsBool(t, r) == (CHOOSE d \in t : d.id = r.tag).type = "bool"

\* the rows of the tag box that get a QLineEdit
EditRows(t, pt, pid) == {r \in TagRows(pt, pid) : ~IsBool(t, r)}

\* the row of a non-empty set of rows that the loop of refresh_pic visits last
LastRow(rows) == CHOOSE r \in rows : \A q \in rows : q.id <= r.id

\* The slots connected in refresh_pic are "lambda: self.remove_tag(lid)" and
\* "lambda: self.update_tag(tag_edit, lid)". A Python closure reads lid and
\* tag_edit when it is called, after the loop has ended: whatever row was
\* clicked, lid is the id of the last row and tag_edit the last edit field.
SlotLid(pt, pid, clicked) == LastRow(TagRows(pt, pid)).id

SlotEditRow(t, pt, pid, clicked) == LastRow(EditRows(t, pt, pid))

\* QLineEdit.text() of a field filled by setText(value)
ShownText(value) == IF value = NULL THEN <<>> ELSE value

\* tag_edit.text() in the slot: the text typed when the field edited is the
\* one the slot reads, else what that field shows
SlotText(shown, edited, typed) ==
    IF shown = edited THEN typed ELSE ShownText(shown.value)

\* App.remove_tag: DELETE FROM pic_tags WHERE id=?
DeletePicTag(pt, lid) == {r \in pt : r.id # lid}

\* App.update_tag: UPDATE pic_tags SET value=? WHERE id=?
UpdatePicTag(pt, lid, text) ==
    {IF r.id = lid THEN [r EXCEPT !.value = text] ELSE r : r \in pt}

\* App.add_tag: the name typed is that of a tag definition
ToolAddTag ==
    /\ gen.pc = "idle"
    /\ dbInit /\ userOps < MaxUserOps
    /\ \E pid \in ShownPics(pics), d \in tags :
         picTags' = InsertPicTag(picTags, pid, d.id)
    /\ userOps' = userOps + 1
    /\ UNCHANGED <<files, dbInit, tags, pics, passes, lastPass, gen>>

\* a click on the Remove button of a row of the tag box
ToolRemoveClicked ==
    /\ gen.pc = "idle"
    /\ dbInit /\ userOps < MaxUserOps
    /\ \E pid \in ShownPics(pics) : \E clicked \in TagRows(picTags, pid) :
         picTags' = DeletePicTag(picTags, SlotLid(picTags, pid, clicked))
    /\ userOps' = userOps + 1
    /\ UNCHANGED <<files, dbInit, tags, pics, passes, lastPass, gen>>

\* editingFinished of the edit field of a row, after the user typed a text
ToolEditingFinished ==
    /\ gen.pc = "idle"
    /\ dbInit /\ userOps < MaxUserOps
    /\ \E pid \in ShownPics(pics) : \E edited \in EditRows(tags, picTags, pid) :
       \E typed \in Texts :
         picTags' = UpdatePicTag(picTags, SlotLid(picTags, pid, edited),
                     SlotText(SlotEditRow(tags, picTags, pid, edited), edited, typed))
    /\ userOps' = userOps + 1
    /\ UNCHANGED <<files, dbInit, tags, pics, passes, lastPass, gen>>

(***************************************************************************)
(* The user changes the image tree.                                        *)
(***************************************************************************)
\* a file is put into the image tree
AddFile ==
    /\ gen.pc = "idle"
    /\ userOps < MaxUserOps
    /\ userOps' = userOps + 1
    /\ \E f \in Candidates :
         /\ f[1] \notin DOMAIN files
         /\ files' = [q \in DOMAIN files \cup {f[1]} |->
                        IF q = f[1] THEN f[2] ELSE files[q]]
    /\ UNCHANGED <<dbInit, tags, pics, picTags, passes, lastPass, gen>>

\* a file is taken out of the image tree
RemoveFile ==
    /\ gen.pc = "idle"
    /\ userOps < MaxUserOps
    /\ userOps' = userOps + 1
    /\ \E p \in DOMAIN files :
         files' = [q \in DOMAIN files \ {p} |-> files[q]]
    /\ UNCHANGED <<dbInit, tags, pics, picTags, passes, lastPass, gen>>

(***************************************************************************)
(* generator.py                                                            *)
(***************************************************************************)
\* path.splitext(fn)[1]: fn from its last dot on; empty when fn has no dot
\* or only a leading one
ExtFrom(fn, k) == IF k = 1 THEN <<>> ELSE SubSeq(fn, k, Len(fn))

ExtAt(fn, dots) ==
    IF dots = {} THEN <<>>
    ELSE ExtFrom(fn, CHOOSE i \in dots : \A j \in dots : j <= i)

SplitExt(fn) == ExtAt(fn, {i \in DOMAIN fn : fn[i] = "."})

\* imgname: f'ar-{prefix.lower()}-{pgnum:04}{ext.lower()}', kept as its three
\* variable parts. The text determines the parts: the extension starts at
\* the last dot, and the digits before it, back to a "-", are the page.
ImgName(prefix, pgnum, orig_fn) ==
    [prefix |-> Lower(prefix), page |-> pgnum, ext |-> Lower(SplitExt(orig_fn))]

\* imgpath
ImgPath(prefix, pgnum, orig_fn) ==
    [dir |-> "images", name |-> ImgName(prefix, pgnum, orig_fn)]

\* thumbpath
ThumbPath(prefix, pgnum) ==
    [dir |-> "thumbs",
     name |-> ImgName(prefix, pgnum, <<"_", ".", "p", "n", "g">>)]

\* f'{book}/pages/pg{pgnum}.html': the detail page of page pgnum of a book
PageLink(book, pgnum) == [book |-> book, page |-> pgnum]

\* all the sequences that list the elements of S once each
RECURSIVE Perms(_)
Perms(S) ==
    IF S = {} THEN { <<>> }
    ELSE UNION { { <<x>> \o p : p \in Perms(S \ {x}) } : x \in S }

\* The results SQL may give for ORDER BY on the rows S: rows with equal keys
\* come in any order.
ByPgnum(a, b) == a.pgnum <= b.pgnum

\* ORDER BY pgnum
OrderByPgnum(S) ==
    {o \in Perms(S) : \A i \in 1..(Len(o) - 1) : ByPgnum(o[i], o[i + 1])}

\* an index query without its ORDER BY value
ByRowOrder(a, b) == TRUE

ByValue(a, b) == TextLeq(a.value, b.value)

\* ORDER BY value
OrderByValue(S) ==
    {o \in Perms(S) : \A i \in 1..(Len(o) - 1) : ByValue(o[i], o[i + 1])}

\* "Building file index": pics[hash] = pic for every file; of two files with
\* the same bytes the one glob lists last stays
IndexesOf(fs, hs) ==
    {idx \in [hs -> DOMAIN fs] : \A h \in hs : Sha3(fs[idx[h]]) = h}

FileIndexes(fs) == IndexesOf(fs, {Sha3(fs[p]) : p \in DOMAIN fs})

\* "Copying images": the rows of pics in rowid order; pics[hash] of a row
\* whose bytes were not found raises KeyError
\* shutil.copy(pics[hash], dst); pics[hash] = dst
CopyTo(st, r, dst) ==
    [st EXCEPT !.copies = Append(@, [src |-> st.pics[r.sha3], dst |-> dst,
                                     sha3 |-> r.sha3]),
               !.pics = [@ EXCEPT ![r.sha3] = dst]]

CopyRow(st, r) ==
    IF r.sha3 \notin DOMAIN st.pics THEN [st EXCEPT !.err = "KeyError"]
    ELSE CopyTo(st, r, ImgPath(r.prefix, r.pgnum, r.filename))

RECURSIVE CopyLoop(_, _, _)
CopyLoop(ps, i, st) ==
    IF i > Len(ps) \/ st.err # "ok" THEN st
    ELSE CopyLoop(ps, i + 1, CopyRow(st, ps[i]))

\* the books in descending order of name
Descending(bs) ==
    CHOOSE o \in Perms(bs) : \A i \in 1..(Len(o) - 1) : TextLess(o[i + 1], o[i])

\* SELECT DISTINCT book FROM pics ORDER BY book
Ascending(bs) ==
    CHOOSE o \in Perms(bs) : \A i \in 1..(Len(o) - 1) : TextLess(o[i], o[i + 1])

Books(ps) == Ascending({ps[i].book : i \in DOMAIN ps})

\* (SELECT id FROM tags WHERE name="title")
TitleTagIds(t) == {d.id : d \in {x \in t : x.name = "title"}}

\* the rows of pic_tags an index query selects: title values that are
\* neither NULL nor ""
TitledRows(t, pt) ==
    {r \in pt : r.tag \in TitleTagIds(t) /\ r.value # NULL /\ r.value # <<>>}

\* a row of an index: the title and the link to the detail page; pic is the
\* picture the row comes from
IndexEntry(ps, r) ==
    [value |-> r.value, link |-> PageLink(ps[r.pic].book, ps[r.pic].pgnum),
     pic |-> r.pic]

\* the index entries of one book, ORDER BY value
BookIndexes(t, ps, pt, book) ==
    {[i \in DOMAIN o |-> IndexEntry(ps, o[i])] :
        o \in OrderByValue({r \in TitledRows(t, pt) : ps[r.pic].book = book})}

\* the index entries of all books, ORDER BY value
MainIndexes(t, ps, pt) ==
    {[i \in DOMAIN o |-> IndexEntry(ps, o[i])] :
        o \in OrderByValue(TitledRows(t, pt))}

\* SELECT prefix, pgnum, filename, sha3 FROM pics WHERE book=? ORDER BY pgnum
BookRows(ps, book) ==
    OrderByPgnum({ps[i] : i \in {j \in DOMAIN ps : ps[j].book = book}})

\* the list "pages" of a book
PageEntries(book, rows) ==
    [i \in DOMAIN rows |->
        [pgnum |-> rows[i].pgnum,
         thumb |-> ThumbPath(rows[i].prefix, rows[i].pgnum),
         img   |-> ImgPath(rows[i].prefix, rows[i].pgnum, rows[i].filename),
         link  |-> PageLink(book, rows[i].pgnum),
         hash  |-> rows[i].sha3]]

\* SELECT DISTINCT category FROM pics WHERE book=? AND category NOT NULL
Cats(ps, book) ==
    {ps[i].category : i \in {j \in DOMAIN ps :
                               ps[j].book = book /\ ps[j].category # NULL}}

\* the category query without "AND category=?"
CatRowsOfBook(ps, book, cat) ==
    OrderByPgnum({ps[i] : i \in {j \in DOMAIN ps : ps[j].book = book}})

\* SELECT ... FROM pics WHERE book=? AND category=? ORDER BY pgnum
CatRows(ps, book, cat) ==
    OrderByPgnum({ps[i] : i \in {j \in DOMAIN ps :
                                   ps[j].book = book /\ ps[j].category = cat}})

\* one list per category of the book
CatListsOf(ps, book, cs) ==
    {f \in [cs -> UNION {CatRows(ps, book, c) : c \in cs}] :
        \A c \in cs : f[c] \in CatRows(ps, book, c)}

CatLists(ps, book) == CatListsOf(ps, book, Cats(ps, book))

\* the list "cat_pages" of a category
CatEntries(book, rows) ==
    [i \in DOMAIN rows |->
        [pgnum |-> rows[i].pgnum,
         thumb |-> ThumbPath(rows[i].prefix, rows[i].pgnum),
         link  |-> PageLink(book, rows[i].pgnum),
         hash  |-> rows[i].sha3]]

\* zip([None] + pages[:-1], pages, pages[1:] + [None]): the entry before and
\* after position i, if any
HasPrev(pages, i) == i > 1

HasNext(pages, i) == i < Len(pages)

\* the detail page written for position i of the list "pages": the file
\* pg<pgnum>.html, and the page numbers that name its prev and next links
DetailPage(ps, book, pages, i) ==
    [file     |-> PageLink(book, pages[i].pgnum),
     pgnum    |-> pages[i].pgnum,
     hash     |-> pages[i].hash,
     cat      |-> ps[PicIdOf(ps, pages[i].hash)].category,
     has_prev |-> HasPrev(pages, i),
     prev_num |-> IF HasPrev(pages, i) THEN pages[i - 1].pgnum ELSE PgNull,
     has_next |-> HasNext(pages, i),
     next_num |-> IF HasNext(pages, i) THEN pages[i + 1].pgnum ELSE PgNull]

\* the detail pages of a book in the order they are written
DetailPages(ps, book, pages) ==
    [i \in DOMAIN pages |-> DetailPage(ps, book, pages, i)]

\* what the loop "for book in books" can write for one book
BookSite(ps, book, e, pages, cl) ==
    [index  |-> e,
     pages  |-> pages,
     cats   |-> [c \in DOMAIN cl |-> CatEntries(book, cl[c])],
     detail |-> DetailPages(ps, book, pages)]

BookSites(t, ps, pt, book) ==
    { BookSite(ps, book, e, PageEntries(book, rs), cl) :
        e \in BookIndexes(t, ps, pt, book),
        rs \in BookRows(ps, book),
        cl \in CatLists(ps, book) }

\* the site: the books, what was written per book, the main index and the
\* main page list (book_pages)
Site(bs, f, e) ==
    [books  |-> bs,
     byBook |-> f,
     index  |-> e,
     pages  |-> [i \in DOMAIN bs |-> [book |-> bs[i], pages |-> f[bs[i]].pages]]]

\* one of the possible results per book
BookChoices(t, ps, pt, bset) ==
    {g \in [bset -> UNION {BookSites(t, ps, pt, b) : b \in bset}] :
        \A b \in bset : g[b] \in BookSites(t, ps, pt, b)}

SitesOf(t, ps, pt, bs) ==
    { Site(bs, f, e) :
        f \in BookChoices(t, ps, pt, {bs[i] : i \in DOMAIN bs}),
        e \in MainIndexes(t, ps, pt) }

\* what "Writing indices" can write
Sites(t, ps, pt) == SitesOf(t, ps, pt, Books(ps))

\* os.mkdir(path.join(out, book_dir)) raises FileExistsError for a book named
\* like a directory that exists already
MkdirFails(ps) ==
    \E i \in DOMAIN ps : ps[i].book \in { <<".">>, <<"i", "m", "a", "g", "e", "s">>,
                                          <<"t", "h", "u", "m", "b", "s">> }

NoSite == [books |-> <<>>, byBook |-> <<>>, index |-> <<>>, pages |-> <<>>]

GenIdle ==
    [pc |-> "idle", pics |-> <<>>, copies |-> <<>>, thumbArgs |-> {},
     site |-> NoSite, err |-> "ok"]

\* "Building file index"
GenBuildFileIndex ==
    /\ gen.pc = "idle"
    /\ \E idx \in FileIndexes(files) :
         gen' = [gen EXCEPT !.pc = "hashed", !.pics = idx]
    /\ UNCHANGED <<files, dbInit, tags, pics, picTags, passes, userOps, lastPass>>

\* the run after the copy loop
Copied(g, st) ==
    [g EXCEPT !.pc = IF st.err = "ok" THEN "copied" ELSE "failed",
              !.pics = st.pics, !.copies = st.copies, !.err = st.err]

\* "Copying images"; without the tables the SELECT raises OperationalError
GenCopyImages ==
    /\ gen.pc = "hashed"
    /\ IF ~dbInit
       THEN gen' = [gen EXCEPT !.pc = "failed", !.err = "OperationalError"]
       ELSE gen' = Copied(gen, CopyLoop(pics, 1, [pics |-> gen.pics,
                                                   copies |-> <<>>, err |-> "ok"]))
    /\ UNCHANGED <<files, dbInit, tags, pics, picTags, passes, userOps, lastPass>>

\* mogrify run with its exit status ignored
GenThumbnailsUnchecked ==
    /\ gen.pc = "copied"
    /\ \E ok \in BOOLEAN :
         gen' = [gen EXCEPT !.pc = "thumbed",
                            !.thumbArgs = {gen.pics[h] : h \in DOMAIN gen.pics},
                            !.err = IF ok THEN "ok" ELSE "CalledProcessError: mogrify"]
    /\ UNCHANGED <<files, dbInit, tags, pics, picTags, passes, userOps, lastPass>>

\* "Generating Thumbnails": check_call of mogrify over pics.values() raises
\* CalledProcessError when mogrify fails
GenThumbnails ==
    /\ gen.pc = "copied"
    /\ \E ok \in BOOLEAN :
         gen' = [gen EXCEPT !.pc = IF ok THEN "thumbed" ELSE "failed",
                            !.thumbArgs = {gen.pics[h] : h \in DOMAIN gen.pics},
                            !.err = IF ok THEN "ok" ELSE "CalledProcessError: mogrify"]
    /\ UNCHANGED <<files, dbInit, tags, pics, picTags, passes, userOps, lastPass>>

\* "Writing indices"
GenWritePages ==
    /\ gen.pc = "thumbed"
    /\ IF MkdirFails(pics)
       THEN gen' = [gen EXCEPT !.pc = "failed", !.err = "FileExistsError"]
       ELSE \E site \in Sites(tags, pics, picTags) :
              gen' = [gen EXCEPT !.pc = "rendered", !.site = site]
    /\ UNCHANGED <<files, dbInit, tags, pics, picTags, passes, userOps, lastPass>>

\* "Compressing output": check_call of zip, then print('Done.')
GenArchive ==
    /\ gen.pc = "rendered"
    /\ \E ok \in BOOLEAN :
         gen' = [gen EXCEPT !.pc = IF ok THEN "done" ELSE "failed",
                            !.err = IF ok THEN "ok" ELSE "CalledProcessError: zip"]
    /\ UNCHANGED <<files, dbInit, tags, pics, picTags, passes, userOps, lastPass>>

Init ==
    /\ files = << >>
    /\ dbInit = FALSE
    /\ tags = {}
    /\ pics = << >>
    /\ picTags = {}
    /\ passes = 0
    /\ userOps = 0
    /\ gen = GenIdle
    /\ lastPass = [err |-> "none", found |-> {}, ever |-> {}]

Next ==
    \/ AddFile
    \/ RemoveFile
    \/ Reindex
    \/ ToolAddTag
    \/ ToolRemoveClicked
    \/ ToolEditingFinished
    \/ GenBuildFileIndex
    \/ GenCopyImages
    \/ GenThumbnails
    \/ GenWritePages
    \/ GenArchive

Spec == Init /\ [][Next]_vars

(***************************************************************************)
(* The claims.                                                             *)
(***************************************************************************)
\* the rows of pics
Rows == DOMAIN pics

\* the (series, image-index) pair parsed from the file name of row i
SeriesOf(i) == IntOf(ReMatch(pics[i].filename).series)

ImgnumOf(i) == IntOf(ReMatch(pics[i].filename).imgnum)

KeyLess(i, j) ==
    \/ SeriesOf(i) < SeriesOf(j)
    \/ SeriesOf(i) = SeriesOf(j) /\ ImgnumOf(i) < ImgnumOf(j)

SamePrefix(i) == {j \in Rows : pics[j].prefix = pics[i].prefix}

\* C1: after any sequence of reindex passes, the page numbers of the
\* pictures of the catalog that share a prefix are 1..N without gaps or
\* duplicates, in ascending (series, image-index) order of their file names.
C1_DensePagesPerPrefix ==
    \A i \in Rows :
        /\ {pics[j].pgnum : j \in SamePrefix(i)} = 1..Cardinality(SamePrefix(i))
        /\ \A j \in SamePrefix(i) : KeyLess(i, j) => pics[i].pgnum < pics[j].pgnum

\* a site has been written
Rendered == gen.pc \in {"rendered", "done"} \/ gen.err = "CalledProcessError: zip"

\* the detail pages written for book b, in the order of writing
DetailOf(b) == gen.site.byBook[b].detail

BookSet == {gen.site.books[i] : i \in DOMAIN gen.site.books}

\* C2: of the detail pages written for a book, the page numbered 1 has
\* has_prev = FALSE, the last page has has_next = FALSE, and a page i between
\* links back to page i-1 and forward to page i+1.
C2_DetailLinksByNumber ==
    Rendered =>
        \A b \in BookSet : \A k \in DOMAIN DetailOf(b) :
            /\ DetailOf(b)[k].pgnum = 1 => ~DetailOf(b)[k].has_prev
            /\ k = Len(DetailOf(b)) => ~DetailOf(b)[k].has_next
            /\ 1 < k /\ k < Len(DetailOf(b))
                 => DetailOf(b)[k].has_prev /\ DetailOf(b)[k].has_next
            /\ DetailOf(b)[k].has_prev
                 => DetailOf(b)[k].prev_num = DetailOf(b)[k].pgnum - 1
            /\ DetailOf(b)[k].has_next
                 => DetailOf(b)[k].next_num = DetailOf(b)[k].pgnum + 1

\* a list of entries is in strictly ascending order of page number
StrictlyAscending(list) ==
    \A k \in 1..(Len(list) - 1) : list[k].pgnum < list[k + 1].pgnum

\* C3: for every book, the page list, each category list and the sequence of
\* detail pages are in strictly ascending order of page number.
C3_ListsStrictlyAscending ==
    Rendered =>
        \A b \in BookSet :
            /\ StrictlyAscending(gen.site.byBook[b].pages)
            /\ StrictlyAscending(DetailOf(b))
            /\ \A c \in DOMAIN gen.site.byBook[b].cats :
                   StrictlyAscending(gen.site.byBook[b].cats[c])


\* picture p has a title value that is neither NULL nor empty
HasTitle(p) ==
    \E r \in picTags :
        /\ r.pic = p /\ r.value # NULL /\ Len(r.value) > 0
        /\ \E d \in tags : d.id = r.tag /\ d.name = "title"

\* the entries of an index are sorted by value, and each shows a title value
\* of its picture
IndexSorted(idx) ==
    /\ \A k \in 1..(Len(idx) - 1) : TextLeq(idx[k].value, idx[k + 1].value)
    /\ \A k \in DOMAIN idx :
           \E r \in picTags : r.pic = idx[k].pic /\ r.value = idx[k].value

IndexPics(idx) == {idx[k].pic : k \in DOMAIN idx}

PagesOf(b) == gen.site.byBook[b].pages

\* C4: every index the generator emits (per book, and the global one) lists
\* exactly the pictures (of the book, resp. of all books) with a non-empty
\* title value, sorted by that value; a picture without one is in no index
\* but is in the page list of its book.
C4_IndexesListTitledPictures ==
    Rendered =>
        /\ IndexSorted(gen.site.index)
        /\ IndexPics(gen.site.index) = {p \in Rows : HasTitle(p)}
        /\ \A b \in BookSet :
               /\ IndexSorted(gen.site.byBook[b].index)
               /\ IndexPics(gen.site.byBook[b].index)
                    = {p \in Rows : pics[p].book = b /\ HasTitle(p)}
        /\ \A p \in Rows :
               /\ pics[p].book \in BookSet
               /\ \E k \in DOMAIN PagesOf(pics[p].book) :
                      PagesOf(pics[p].book)[k].hash = pics[p].sha3

\* a book whose index lists a picture while another picture of the book,
\* without title, is in its page list only
C4_Witness ==
    /\ Rendered
    /\ \E p, q \in Rows :
           /\ pics[p].book = pics[q].book
           /\ HasTitle(p) /\ ~HasTitle(q)
           /\ p \in IndexPics(gen.site.byBook[pics[p].book].index)
           /\ q \notin IndexPics(gen.site.index)
           /\ \E k \in DOMAIN PagesOf(pics[q].book) :
                  PagesOf(pics[q].book)[k].hash = pics[q].sha3

CatsOf(b) == gen.site.byBook[b].cats

ListHashes(list) == {list[k].hash : k \in DOMAIN list}

\* the pictures of book b in category c
InCategory(b, c) == {p \in Rows : pics[p].book = b /\ pics[p].category = c}

FileHashes == {Sha3(files[p]) : p \in DOMAIN files}

RowHashes(ps) == {ps[i].sha3 : i \in DOMAIN ps}

\* a row of the catalog whose bytes no file of the tree has
MissingSource == \E i \in Rows : pics[i].sha3 \notin FileHashes

\* C6: a catalog row whose content hash is not among the hashes of the
\* scanned files is not fatal for the generator: the run fails only where the
\* thumbnailer or the archiver fails, and what it renders leaves the picture
\* out.
C6_MissingSourceNotFatal ==
    MissingSource =>
        /\ gen.pc = "failed"
             => gen.err \in {"CalledProcessError: mogrify", "CalledProcessError: zip"}
        /\ Rendered
             => \A b \in BookSet :
                    ListHashes(PagesOf(b)) \cap (RowHashes(pics) \ FileHashes) = {}

\* a step is a reindex pass that committed
PassCommitted == passes' # passes /\ lastPass'.err = "ok"

\* C7: reindexing is an upsert by content hash that never deletes: no step
\* removes a picture row or changes its hash, and after a pass the catalog has
\* one row per hash scanned so far, with valid = 1 exactly for the rows whose
\* hash a file of this pass has. (A pass that raises is rolled back and leaves
\* the rows as they were.)
C7_UpsertNeverDeletes ==
    [][ /\ \A i \in DOMAIN pics :
               i \in DOMAIN pics' /\ pics'[i].sha3 = pics[i].sha3
        /\ PassCommitted =>
               /\ RowHashes(pics') = RowHashes(pics) \cup FileHashes
               /\ Cardinality(RowHashes(pics')) = Len(pics')
               /\ \A i \in DOMAIN pics' :
                      pics'[i].valid = 1 <=> pics'[i].sha3 \in FileHashes
        /\ (passes' # passes /\ ~PassCommitted) => pics' = pics
      ]_vars

\* after two passes: a row whose file disappeared, kept with valid = 0 beside
\* a row whose file was found
C7_Witness ==
    /\ passes = 2 /\ lastPass.err = "ok"
    /\ \E i, j \in Rows :
           /\ pics[i].valid = 0 /\ pics[i].sha3 \notin FileHashes
           /\ pics[j].valid = 1 /\ pics[j].sha3 \in FileHashes

\* the rows of pic_tags a step adds
NewPicTags == picTags' \ picTags

\* C8: a reindex pass deletes no tag-value row and changes no picture, tag
\* or value of one; all it adds is an empty title value for a scanned picture
\* that has no title value.
C8_PassKeepsTagValues ==
    [][ passes' # passes =>
          /\ picTags \subseteq picTags'
          /\ \A r \in NewPicTags :
                 /\ r.value = NULL
                 /\ \E d \in tags' : d.id = r.tag /\ d.name = "title"
                 /\ r.pic \in DOMAIN pics' /\ pics'[r.pic].sha3 \in FileHashes
                 /\ \A q \in picTags : q.id # r.id /\ ~(q.pic = r.pic /\ q.tag = r.tag)
                 /\ \A q \in NewPicTags : q.pic = r.pic => q = r
      ]_vars

\* a title typed in the tool is still there after a pass that did not find
\* the file of its picture, and that pass gave another picture its empty title
C8_Witness ==
    /\ passes = 2 /\ lastPass.err = "ok"
    /\ \E r, q \in picTags :
           /\ r.value # NULL /\ Len(r.value) > 0 /\ pics[r.pic].valid = 0
           /\ q.value = NULL /\ pics[q.pic].valid = 1 /\ q.id > r.id

\* a file of the tree whose name the pattern does not match
BadName == \E p \in DOMAIN files : ~ReMatch(p.fn).matched

StageSteps ==
    { <<"idle", "hashed">>, <<"hashed", "copied">>, <<"copied", "thumbed">>,
      <<"thumbed", "rendered">>, <<"rendered", "done">> }
    \cup {<<s, "failed">> : s \in {"hashed", "copied", "thumbed", "rendered"}}

\* C10: the stages of the generator run in the order hash, copy, thumbnail,
\* render, archive; a failure of the thumbnailer or of the archiver ends the
\* run: after a failed thumbnailer no page is rendered and no archive is
\* made, and "Done." is reached only by the archive step, when zip succeeded.
C10_StagesInOrder ==
    [][ gen' # gen =>
          /\ <<gen.pc, gen'.pc>> \in StageSteps
          /\ gen'.copies # gen.copies => gen.pc = "hashed"
          /\ gen'.thumbArgs # gen.thumbArgs => gen.pc = "copied"
          /\ gen'.site # gen.site => gen.pc = "thumbed" /\ gen'.pc = "rendered"
          /\ gen'.err \in {"CalledProcessError: mogrify", "CalledProcessError: zip"}
                => gen'.pc = "failed"
          /\ gen'.err = "CalledProcessError: mogrify" => gen'.site = NoSite
          /\ gen'.pc = "done" => gen.pc = "rendered" /\ gen'.err = "ok"
      ]_vars

\* the thumbnailer failed after images were copied: nothing is rendered
C10_Witness ==
    /\ gen.pc = "failed" /\ gen.err = "CalledProcessError: mogrify"
    /\ Len(gen.copies) > 0 /\ gen.thumbArgs # {}
    /\ gen.site = NoSite


\* the groups of the global page list
MainPages == gen.site.pages

\* C11: the global page list has one group per book of the catalog, the
\* groups in ascending order of book name, and each group is the page list of
\* its book, entry for entry.
C11_MainPageListByBook ==
    Rendered =>
        /\ {MainPages[k].book : k \in DOMAIN MainPages}
             = {pics[p].book : p \in Rows}
        /\ \A k \in 1..(Len(MainPages) - 1) :
               TextLess(MainPages[k].book, MainPages[k + 1].book)
        /\ \A k \in DOMAIN MainPages :
               /\ MainPages[k].pages = PagesOf(MainPages[k].book)
               /\ ListHashes(MainPages[k].pages)
                    = {pics[p].sha3 : p \in {q \in Rows : pics[q].book = MainPages[k].book}}
               /\ \A i \in 1..(Len(MainPages[k].pages) - 1) :
                      MainPages[k].pages[i].pgnum <= MainPages[k].pages[i + 1].pgnum

\* two books, the first with two pages in its group
C11_Witness ==
    /\ Rendered
    /\ Len(MainPages) = 2
    /\ Len(MainPages[1].pages) = 2
    /\ MainPages[1].pages[1].pgnum < MainPages[1].pages[2].pgnum
    /\ Len(MainPages[2].pages) = 1


\* mogrify was called and returned without error
ThumbnailerRan == gen.pc \in {"thumbed", "rendered", "done"}

\* the output image paths: where the copy loop put the catalog's pictures
CopiedImages == {gen.copies[k].dst : k \in DOMAIN gen.copies}

\* C12: the files passed to the thumbnailer are exactly the output image
\* paths of the copied catalog pictures, and nothing else.
C12_ThumbnailsOfCopiedImages ==
    ThumbnailerRan => gen.thumbArgs = CopiedImages


\* what a click on Remove in the row clicked does to pic_tags
AfterRemove(pid, clicked) ==
    DeletePicTag(picTags, SlotLid(picTags, pid, clicked))

\* what editingFinished of the field of the row edited does to pic_tags,
\* after the user typed a text into it
AfterEdit(pid, edited, typed) ==
    UpdatePicTag(picTags, SlotLid(picTags, pid, edited),
                 SlotText(SlotEditRow(tags, picTags, pid, edited), edited, typed))

\* C13: in the tagging tool every row of the tag box is bound to its own
\* record: Remove deletes the tag value of the row clicked and no other, and
\* finishing an edit writes the text of the field to the row edited and to no
\* other, however many tag values the picture has.
C13_RowsBoundToOwnRecord ==
    \A pid \in ShownPics(pics) :
        /\ \A clicked \in TagRows(picTags, pid) :
               AfterRemove(pid, clicked) = picTags \ {clicked}
        /\ \A edited \in EditRows(tags, picTags, pid) : \A typed \in Texts :
               AfterEdit(pid, edited, typed)
                 = (picTags \ {edited}) \cup {[edited EXCEPT !.value = typed]}


\* the copy loop has ended without error
CopyDone == gen.pc \in {"copied", "thumbed", "rendered", "done"}

\* the files of the detail pages written for book b
DetailFiles(b) == {DetailOf(b)[k].file : k \in DOMAIN DetailOf(b)}

\* C14: no output file is written twice in a generator run: the pictures of
\* the catalog are copied to pairwise distinct image paths, and the pictures
\* of a book get pairwise distinct detail-page files, so there are as many
\* images and detail pages as catalog pictures.
C14_NoOutputFileWrittenTwice ==
    /\ CopyDone =>
           /\ Len(gen.copies) = Len(pics)
           /\ Cardinality(CopiedImages) = Len(pics)
    /\ Rendered =>
           \A b \in BookSet :
               Cardinality(DetailFiles(b))
                 = Cardinality({p \in Rows : pics[p].book = b})


\* a file of the tree more than two directories below img_path
TooDeep == \E p \in DOMAIN files : Len(p.dir) > 2

\* C15: a reindex pass over a tree with a file name that does not match the
\* pattern, or with a file more than two directories deep, aborts and leaves
\* the picture rows and the tag values as they were before the pass: no valid
\* flag reset, no row inserted or updated. A pass over any other tree does
\* not abort.
C15_AbortedPassChangesNothing ==
    [][ passes' # passes =>
          /\ lastPass'.err # "ok" <=> (BadName \/ TooDeep)
          /\ (BadName \/ TooDeep) => pics' = pics /\ picTags' = picTags
      ]_vars

\* a pass aborted at a file three directories deep, after the file of a
\* catalogued picture had disappeared: the row still has valid = 1
C15_Witness ==
    /\ lastPass.err = "UserWarning: directory"
    /\ TooDeep
    /\ \E i \in Rows : pics[i].valid = 1 /\ pics[i].sha3 \notin FileHashes


\* the pass over the present tree, files listed in this order, run on the
\* catalog as it is
FirstPass(order) ==
    PassResult(files, InsertDefaultTags(tags), pics, picTags, order)

\* the same pass run again on what a committed pass left
PassAgain(first, order) ==
    PassResult(files, InsertDefaultTags(tags), first.pics, first.picTags, order)

\* the second pass leaves the rows of pics and of pic_tags as the first did
SameCatalog(first, second) ==
    /\ second.err = "ok"
    /\ second.pics = first.pics
    /\ second.picTags = first.picTags

\* a pass that committed, run again, changes nothing
IdempotentOn(first, order) ==
    first.err = "ok" => SameCatalog(first, PassAgain(first, order))

\* C16: reindexing is idempotent: on every catalog the program can reach,
\* a pass that commits followed by a second pass over the same files (listed
\* by glob in the same order) leaves every picture row and every tag-value
\* row as the first pass left it; no second title value is added. (A pass
\* starts only while no generator run is under way.)
C16_ReindexIdempotent ==
    gen.pc = "idle" =>
        \A order \in Orders(DOMAIN files) : IdempotentOn(FirstPass(order), order)

\* the titles picture p has
TitlesOf(p) ==
    {r \in picTags : r.pic = p /\ \E d \in tags : d.id = r.tag /\ d.name = "title"}

\* after two passes over two files: two numbered pictures with one title
\* value each, and the catalog is what a pass over the tree leaves
C16_Witness ==
    /\ passes = 2 /\ lastPass.err = "ok" /\ userOps = 2
    /\ Len(pics) = 2 /\ Cardinality(DOMAIN files) = 2
    /\ \A p \in Rows :
           pics[p].valid = 1 /\ pics[p].pgnum >= 1 /\ Cardinality(TitlesOf(p)) = 1
    /\ \E order \in Orders(DOMAIN files) :
           /\ FirstPass(order).pics = pics
           /\ FirstPass(order).picTags = picTags


====
